---- MODULE Spec2Model ----
(***************************************************************************)
(* Model of the ai-web-assistant-backend: the credential table and its     *)
(* update / lookup operations, the ask-question pipeline, the provider     *)
(* adapters, the text truncator and the Q&A store.                         *)
(*                                                                         *)
(* Python None and SQL NULL are the value None; the empty string "" is a   *)
(* present (non-NULL) value that Python treats as false.                   *)
(***************************************************************************)
EXTENDS Integers, Sequences, FiniteSets, TLC

\* ---------------------------------------------------------------- bounds
MaxKeys == 3
MaxQA == 3
MaxLen == 4
MaxBudget == 3
MaxAsks == 2

\* ------------------------------------------------------- values and inputs
None == "None"

\* models.py: class Provider, class Model
ProviderValues == {"openai", "anthropic"}
ModelValues == {"gpt-4", "gpt-3.5-turbo", "claude-3-sonnet-20240229"}

\* config.py: Config.SUPPORTED_PROVIDERS, OPENAI_MODEL, CLAUDE_MODEL
SUPPORTED_PROVIDERS ==
    [p \in {"openai", "anthropic"} |->
        IF p = "openai" THEN {"gpt-4", "gpt-3.5-turbo"}
        ELSE {"claude-3-sonnet-20240229"}]
OPENAI_MODEL == "gpt-3.5-turbo"
CLAUDE_MODEL == "claude-3-sonnet-20240229"

\* Request inputs the actions draw from.
Keys == {"sk-1", "sk-2"}
ProviderInputs == {"openai", "anthropic", "cohere"}
ModelInputs == {"gpt-4", "bogus"}
AskModelInputs == {None, "gpt-4", "claude-3-sonnet-20240229", "bogus"}
UserInputs == {None, "", "u1"}
Urls == {"https://x.test", "https://y.test"}
Threads == {1, 2}
Alphabet == {"a", ".", "?", "!"}

VARIABLES
    api_keys,    \* table api_keys: sequence of rows, row i has id i
    qa_pairs,    \* table qa_pairs: set of rows [id, webpage_url]
    resp,        \* the result of the last operation, with its inputs
    pc,          \* per request thread: position inside update_api_key
    req,         \* per request thread: the arguments of its call
    work,        \* per request thread: its session's uncommitted table
    result,      \* per request thread: the dict update_api_key returned
    dbLock,      \* thread holding the SQLite write lock, 0 when free
    overlap,     \* the two threads' current calls were in flight together
    text,        \* truncate_text input
    max_chars,   \* truncate_text budget
    out,         \* truncate_text: whether it has returned, and its output
    adapter,     \* the adapter create_provider returned (kind None: none)
    asks         \* number of adapter ask_question calls made

vars == <<api_keys, qa_pairs, resp, pc, req, work, result, dbLock, overlap,
          text, max_chars, out, adapter, asks>>

credVars == <<api_keys>>
qaVars == <<qa_pairs>>
concVars == <<pc, req, work, result, dbLock, overlap>>
truncVars == <<text, max_chars, out>>
adapterVars == <<adapter, asks>>

\* Python truthiness of an Optional[str]: None and "" are both false.
Truthy(v) == v # None /\ v # ""

\* The shape of resp; each operation fills the fields it has.
NoResp ==
    [op |-> "none", provider |-> None, model |-> None, user_id |-> None,
     qa_id |-> 0, status |-> "none", error |-> <<>>, row |-> 0,
     steps |-> <<>>, calls |-> 0, raised |-> FALSE, backend |-> None,
     ids |-> {}]

\* The arguments of an update_api_key call, and the dict it returns.
NoReq == [key |-> None, provider |-> None, model |-> None, user_id |-> None]
NoResult == [status |-> "none", error |-> <<>>, id |-> 0]

NoAdapter == [kind |-> None, api_key |-> None]
NoOut == [done |-> FALSE, value |-> <<>>]

\* --------------------------------------------------------- credential table

\* models.py APIKey: a new row; is_valid defaults to True, id is the next rowid
\* (rows are never deleted, so it is the table length plus one).
APIKey(tbl, key, provider, model, user_id) ==
    [id |-> Len(tbl) + 1, key |-> key, provider |-> provider,
     model |-> model, user_id |-> user_id, is_valid |-> TRUE]

\* services.py 119-123: the UPDATE ... SET is_valid = False.  A falsy user_id
\* (None or "") takes the else branch, which matches user_id IS NULL.
InvalidateExisting(tbl, provider, user_id) ==
    LET scope == IF Truthy(user_id) THEN user_id ELSE None
    IN  [i \in DOMAIN tbl |->
            IF tbl[i].provider = provider /\ tbl[i].user_id = scope
            THEN [tbl[i] EXCEPT !.is_valid = FALSE]
            ELSE tbl[i]]

\* db_session.commit(): the session's pending table becomes the stored one.
Commit(committed, pending) == pending

\* A rollback that loses the INSERT but keeps the UPDATE.
RollbackKeepsUpdate(committed, pending) ==
    [i \in DOMAIN committed |-> pending[i]]

\* db_session.rollback(): the pending work is discarded.
Rollback(committed, pending) == committed

\* services.py 110-137, as one transaction.  fault: the INSERT/COMMIT raises.
update_api_key(key, provider, model, user_id, fault) ==
    LET r == [NoResp EXCEPT !.op = "update_api_key", !.provider = provider,
                            !.user_id = user_id]
        pending == Append(InvalidateExisting(api_keys, provider, user_id),
                          APIKey(api_keys, key, provider, model, user_id))
    IN  /\ IF provider \notin ProviderValues
           THEN /\ api_keys' = api_keys
                /\ resp' = [r EXCEPT !.status = "error",
                                     !.error = <<"Invalid provider">>]
           ELSE IF model \notin ModelValues
           THEN /\ api_keys' = api_keys
                /\ resp' = [r EXCEPT !.status = "error",
                                     !.error = <<"Invalid model">>]
           ELSE IF fault
           THEN /\ api_keys' = Rollback(api_keys, pending)
                /\ resp' = [r EXCEPT !.status = "error",
                                     !.error = <<"persistence failure">>]
           ELSE /\ Len(api_keys) < MaxKeys
                /\ api_keys' = Commit(api_keys, pending)
                /\ resp' = [r EXCEPT !.status = "success",
                                     !.row = Len(api_keys) + 1]
        /\ UNCHANGED <<qaVars, concVars, truncVars, adapterVars>>

InitCommon ==
    /\ api_keys = <<>>
    /\ qa_pairs = {}
    /\ resp = NoResp
    /\ pc = [t \in Threads |-> "idle"]
    /\ req = [t \in Threads |-> NoReq]
    /\ work = [t \in Threads |-> <<>>]
    /\ result = [t \in Threads |-> NoResult]
    /\ dbLock = 0
    /\ overlap = FALSE
    /\ adapter = NoAdapter
    /\ asks = 0

Init ==
    /\ InitCommon
    /\ text = <<>>
    /\ max_chars = 0
    /\ out = NoOut

\* Any sequence of update_api_key calls from an empty table.  No operation of
\* this specification reads the secret, so one secret is enough here.
NextCred ==
    \E key \in {"sk-1"}, provider \in ProviderInputs, model \in ModelInputs,
       user_id \in UserInputs, fault \in BOOLEAN :
        update_api_key(key, provider, model, user_id, fault)

SpecCred == Init /\ [][NextCred]_vars

\* ------------------------------------------------------ credential lookups

Range(f) == {f[i] : i \in DOMAIN f}

\* app.py 126-128: filter_by(provider, is_valid=True), and the user_id filter
\* only when the query-string user_id is truthy.
GetApiKeyQuery(tbl, provider, user_id) ==
    {i \in DOMAIN tbl :
        /\ tbl[i].provider = provider
        /\ tbl[i].is_valid
        /\ (Truthy(user_id) => tbl[i].user_id = user_id)}

\* app.py 114-139.  query.first() has no ORDER BY: any matching row.
get_api_key(provider, user_id) ==
    LET r == [NoResp EXCEPT !.op = "get_api_key", !.provider = provider,
                            !.user_id = user_id]
        rows == GetApiKeyQuery(api_keys, provider, user_id)
    IN  /\ IF ~Truthy(provider)
           THEN resp' = [r EXCEPT !.status = "error",
                                  !.error = <<"Provider parameter is required">>]
           ELSE IF provider \notin ProviderValues
           THEN resp' = [r EXCEPT !.status = "error",
                                  !.error = <<"Invalid provider">>]
           ELSE IF rows = {}
           THEN resp' = [r EXCEPT !.status = "error",
                    !.error = <<"No valid API key found for provider: ", provider>>]
           ELSE \E i \in rows : resp' = [r EXCEPT !.status = "success", !.row = i]
        /\ UNCHANGED <<credVars, qaVars, concVars, truncVars, adapterVars>>

\* services.py 34: filter_by(provider=provider, is_valid=True); the function
\* has no user_id parameter.
AskQuery(tbl, provider) ==
    {i \in DOMAIN tbl : tbl[i].provider = provider /\ tbl[i].is_valid}

\* services.py 32-63, OpenAIService.ask_question.  steps lists what the call
\* did, in order.  backend: whether the chat-completion request succeeds.
\* openai.OpenAI is the synchronous client, so when the request succeeds the
\* await of its return value raises TypeError, caught at line 62 like any
\* failure of the request itself.
ask_question(provider, model, backend) ==
    LET r == [NoResp EXCEPT !.op = "ask_question", !.provider = provider,
                            !.model = model,
                            !.steps = <<"credential_lookup">>]
        rows == AskQuery(api_keys, provider)
    IN  /\ IF rows = {}
           THEN resp' = [r EXCEPT !.status = "error",
                    !.error = <<"No valid API key found for provider: ", provider>>]
           ELSE \E i \in rows :
                IF provider = "openai"
                THEN resp' = [r EXCEPT
                        !.row = i,
                        !.steps = r.steps \o <<"truncate_text", "construct_client",
                                               "external_call">>,
                        !.calls = 1,
                        !.status = "error",
                        !.error = IF backend = "ok"
                                  THEN <<"TypeError: await">>
                                  ELSE <<"backend failure: ", backend>>]
                ELSE IF provider = "anthropic"
                THEN resp' = [r EXCEPT
                        !.row = i,
                        !.steps = r.steps \o <<"truncate_text">>,
                        !.status = "error",
                        !.error = <<"Anthropic API implementation pending">>]
                ELSE resp' = [r EXCEPT
                        !.row = i,
                        !.steps = r.steps \o <<"truncate_text">>,
                        !.status = "error",
                        !.error = <<"Unsupported provider: ", provider>>]
        /\ UNCHANGED <<credVars, qaVars, concVars, truncVars, adapterVars>>

\* update_api_key, /get_api_key and ask_question in any order.
NextLookup ==
    \/ \E key \in Keys, provider \in ProviderInputs, model \in ModelInputs,
          user_id \in UserInputs, fault \in BOOLEAN :
            update_api_key(key, provider, model, user_id, fault)
    \/ \E provider \in ProviderInputs \cup {None}, user_id \in UserInputs :
            get_api_key(provider, user_id)
    \/ \E provider \in ProviderInputs, model \in AskModelInputs,
          backend \in {"ok", "network"} :
            ask_question(provider, model, backend)

SpecLookup == Init /\ [][NextLookup]_vars

\* ------------------------------------------- concurrent update_api_key calls
\* Each request thread has its own scoped session (db.py 7) on the SQLite file
\* of config.py 8.  SQLite admits one writer: the UPDATE takes the write lock,
\* which the session holds until its commit or rollback.

InFlight(t) == pc[t] \in {"invalidate", "insert"}
Other(t) == CHOOSE o \in Threads : o # t

\* services.py 110-116: the call starts; an invalid provider or model returns.
Begin(t, key, provider, model, user_id) ==
    /\ pc[t] = "idle"
    /\ Len(api_keys) + Cardinality({o \in Threads : InFlight(o)}) < MaxKeys
    /\ req' = [req EXCEPT ![t] = [key |-> key, provider |-> provider,
                                  model |-> model, user_id |-> user_id]]
    /\ overlap' = InFlight(Other(t))
    /\ IF provider \notin ProviderValues
       THEN /\ pc' = [pc EXCEPT ![t] = "done"]
            /\ result' = [result EXCEPT ![t] =
                    [NoResult EXCEPT !.status = "error",
                                     !.error = <<"Invalid provider">>]]
       ELSE IF model \notin ModelValues
       THEN /\ pc' = [pc EXCEPT ![t] = "done"]
            /\ result' = [result EXCEPT ![t] =
                    [NoResult EXCEPT !.status = "error",
                                     !.error = <<"Invalid model">>]]
       ELSE /\ pc' = [pc EXCEPT ![t] = "invalidate"]
            /\ result' = [result EXCEPT ![t] = NoResult]
    /\ UNCHANGED <<work, dbLock, api_keys, qa_pairs, resp, truncVars,
                   adapterVars>>

\* services.py 119-123: the UPDATE runs in the session's transaction.
Invalidate(t) ==
    /\ pc[t] = "invalidate"
    /\ dbLock = 0
    /\ dbLock' = t
    /\ work' = [work EXCEPT ![t] =
            InvalidateExisting(api_keys, req[t].provider, req[t].user_id)]
    /\ pc' = [pc EXCEPT ![t] = "insert"]
    /\ UNCHANGED <<req, result, overlap, api_keys, qa_pairs, resp, truncVars,
                   adapterVars>>

\* The UPDATE finds the database locked until its busy timeout: the exception
\* is caught at services.py 135-137.
Locked(t) ==
    /\ pc[t] = "invalidate"
    /\ dbLock # 0
    /\ pc' = [pc EXCEPT ![t] = "done"]
    /\ result' = [result EXCEPT ![t] =
            [NoResult EXCEPT !.status = "error",
                             !.error = <<"database is locked">>]]
    /\ UNCHANGED <<req, work, dbLock, overlap, api_keys, qa_pairs, resp,
                   truncVars, adapterVars>>

\* services.py 126-134: add the new row and commit.
InsertCommit(t) ==
    /\ pc[t] = "insert"
    /\ api_keys' = Commit(api_keys,
            Append(work[t], APIKey(api_keys, req[t].key, req[t].provider,
                                   req[t].model, req[t].user_id)))
    /\ dbLock' = 0
    /\ work' = [work EXCEPT ![t] = <<>>]
    /\ pc' = [pc EXCEPT ![t] = "done"]
    /\ result' = [result EXCEPT ![t] =
            [NoResult EXCEPT !.status = "success", !.id = Len(api_keys) + 1]]
    /\ UNCHANGED <<req, overlap, qa_pairs, resp, truncVars, adapterVars>>

\* services.py 132-137: the add or the commit raises; rollback.
InsertFails(t) ==
    /\ pc[t] = "insert"
    /\ api_keys' = Rollback(api_keys, work[t])
    /\ dbLock' = 0
    /\ work' = [work EXCEPT ![t] = <<>>]
    /\ pc' = [pc EXCEPT ![t] = "done"]
    /\ result' = [result EXCEPT ![t] =
            [NoResult EXCEPT !.status = "error",
                             !.error = <<"persistence failure">>]]
    /\ UNCHANGED <<req, overlap, qa_pairs, resp, truncVars, adapterVars>>

\* app.py 18-20: the response is sent and the request's session is removed.
Teardown(t) ==
    /\ pc[t] = "done"
    /\ pc' = [pc EXCEPT ![t] = "idle"]
    /\ req' = [req EXCEPT ![t] = NoReq]
    /\ result' = [result EXCEPT ![t] = NoResult]
    /\ overlap' = FALSE
    /\ UNCHANGED <<work, dbLock, api_keys, qa_pairs, resp, truncVars,
                   adapterVars>>

NextConc ==
    \E t \in Threads :
        \/ \E key \in {"sk-1"}, provider \in ProviderInputs, model \in ModelInputs,
              user_id \in UserInputs :
                Begin(t, key, provider, model, user_id)
        \/ Invalidate(t)
        \/ Locked(t)
        \/ InsertCommit(t)
        \/ InsertFails(t)
        \/ Teardown(t)

SpecConc == Init /\ [][NextConc]_vars

\* ------------------------------------------------------------- Q&A store

\* models.py 32: INTEGER PRIMARY KEY in SQLite, the largest rowid plus one.
NextQaId(tbl) ==
    IF tbl = {} THEN 1
    ELSE (CHOOSE m \in {r.id : r \in tbl} : \A r \in tbl : r.id <= m) + 1

\* services.py 66-81.  fault: the add or the commit raises.
save_qa_pair(webpage_url, fault) ==
    LET r == [NoResp EXCEPT !.op = "save_qa_pair"]
        qa_pair == [id |-> NextQaId(qa_pairs), webpage_url |-> webpage_url]
        pending == qa_pairs \cup {qa_pair}
    IN  /\ IF fault
           THEN /\ qa_pairs' = Rollback(qa_pairs, pending)
                /\ resp' = [r EXCEPT !.status = "error",
                                     !.error = <<"persistence failure">>]
           ELSE /\ qa_pair.id <= MaxQA
                /\ qa_pairs' = Commit(qa_pairs, pending)
                /\ resp' = [r EXCEPT !.status = "success", !.qa_id = qa_pair.id]
        /\ UNCHANGED <<credVars, concVars, truncVars, adapterVars>>

\* services.py 83-94.
get_qa_pairs(webpage_url) ==
    /\ resp' = [NoResp EXCEPT
            !.op = "get_qa_pairs", !.status = "success",
            !.ids = {r.id : r \in {q \in qa_pairs : q.webpage_url = webpage_url}}]
    /\ UNCHANGED <<credVars, qaVars, concVars, truncVars, adapterVars>>

\* A lookup that matches every row up to the id.
QueryGetUpTo(tbl, qa_id) == {r \in tbl : r.id <= qa_id}

\* services.py 99: QAPair.query.get(qa_id), the rows with that primary key.
QueryGet(tbl, qa_id) == {r \in tbl : r.id = qa_id}

\* services.py 96-107.  fault: the delete or the commit raises.
delete_qa_pair(qa_id, fault) ==
    LET r == [NoResp EXCEPT !.op = "delete_qa_pair", !.qa_id = qa_id]
        found == QueryGet(qa_pairs, qa_id)
        pending == qa_pairs \ found
    IN  /\ IF found = {}
           THEN /\ qa_pairs' = qa_pairs
                /\ resp' = [r EXCEPT !.status = "error",
                                     !.error = <<"QA pair not found">>]
           ELSE IF fault
           THEN /\ qa_pairs' = Rollback(qa_pairs, pending)
                /\ resp' = [r EXCEPT !.status = "error",
                                     !.error = <<"persistence failure">>]
           ELSE /\ qa_pairs' = Commit(qa_pairs, pending)
                /\ resp' = [r EXCEPT !.status = "success"]
        /\ UNCHANGED <<credVars, concVars, truncVars, adapterVars>>

NextQA ==
    \/ \E webpage_url \in Urls, fault \in BOOLEAN :
            save_qa_pair(webpage_url, fault)
    \/ \E webpage_url \in Urls : get_qa_pairs(webpage_url)
    \/ \E qa_id \in 0..(MaxQA + 1), fault \in BOOLEAN :
            delete_qa_pair(qa_id, fault)

SpecQA == Init /\ [][NextQA]_vars

\* ------------------------------------------------------------- truncation

Min(a, b) == IF a <= b THEN a ELSE b
MaxOf(S) == CHOOSE m \in S : \A x \in S : x <= m

\* Python text[:n] for n >= 0.
Slice(t, n) == SubSeq(t, 1, Min(n, Len(t)))

\* Python str.rfind for one character: the highest 0-based index, or -1.
rfind(t, ch) ==
    LET hits == {i \in 1..Len(t) : t[i] = ch}
    IN  IF hits = {} THEN -1 ELSE MaxOf(hits) - 1

\* providers.py 12-25, and the same body at services.py 14-29.
truncate_text(t, n) ==
    IF Len(t) <= n THEN t
    ELSE LET truncated == Slice(t, n)
             last_period == rfind(truncated, ".")
             last_question == rfind(truncated, "?")
             last_exclamation == rfind(truncated, "!")
             cut_point == MaxOf({last_period, last_question, last_exclamation})
         IN  IF cut_point > 0 THEN Slice(t, cut_point + 1)
             ELSE truncated \o <<".", ".", ".">>

RECURSIVE Texts(_)
Texts(n) ==
    IF n = 0 THEN {<<>>}
    ELSE Texts(n - 1) \cup
         {Append(t, c) : t \in {u \in Texts(n - 1) : Len(u) = n - 1},
                         c \in Alphabet}

InitTrunc ==
    /\ InitCommon
    /\ text \in Texts(MaxLen)
    /\ max_chars \in 0..MaxBudget
    /\ out = NoOut

Truncate ==
    /\ ~out.done
    /\ out' = [done |-> TRUE, value |-> truncate_text(text, max_chars)]
    /\ UNCHANGED <<text, max_chars, credVars, qaVars, concVars, resp,
                   adapterVars>>

SpecTrunc == InitTrunc /\ [][Truncate]_vars

\* -------------------------------------------------------- provider adapters

\* Python str.lower on the provider identifiers the requests use.
Lower(x) ==
    IF x = "OpenAI" THEN "openai"
    ELSE IF x = "ANTHROPIC" THEN "anthropic"
    ELSE x

\* providers.py 65-76: the adapter for the lower-cased identifier, or None.
create_provider(provider_type, api_key) ==
    IF Lower(provider_type) = "openai"
    THEN [kind |-> "OpenAIProvider", api_key |-> api_key]
    ELSE IF Lower(provider_type) = "anthropic"
    THEN [kind |-> "AnthropicProvider", api_key |-> api_key]
    ELSE NoAdapter

\* What the backend request of one ask_question call does: it answers, or it
\* fails in the network, at authentication, with a malformed body or with an
\* empty list of completions; "bad_arguments" is the client rejecting the
\* call's arguments before it sends anything.
BackendOutcomes ==
    {"ok", "network", "auth", "malformed", "empty", "bad_arguments"}

\* The number of requests that reach the backend.
Requests(backend) == IF backend = "bad_arguments" THEN 0 ELSE 1

\* The exception the try block raises for a backend outcome, None when it
\* runs to its return: the client's errors, the error of reading a malformed
\* body, IndexError of choices[0] / content[0] on an empty list, TypeError of
\* rejected arguments.  All of them derive from Exception.
Raises(backend) ==
    IF backend = "ok" THEN None
    ELSE IF backend = "network" THEN "APIConnectionError"
    ELSE IF backend = "auth" THEN "AuthenticationError"
    ELSE IF backend = "malformed" THEN "ValueError"
    ELSE IF backend = "empty" THEN "IndexError"
    ELSE "TypeError"

\* A handler for the client's own errors only.
ExceptAPIError(exc) == exc \in {"APIConnectionError", "AuthenticationError"}

\* providers.py 44 and 62: except Exception catches whatever was raised.
ExceptException(exc) == exc # None

\* providers.py 31-45 (OpenAIProvider) and 51-63 (AnthropicProvider): the
\* whole body is inside try; the client's create is called once and a raised
\* exception that the handler catches becomes {"error": str(e)}.
\* model or Config.<default> is the model requested.
Provider_ask_question(kind, model, backend) ==
    LET exc == Raises(backend)
    IN  [NoResp EXCEPT
            !.op = "adapter_ask",
            !.provider = kind,
            !.model = IF model # None THEN model
                      ELSE IF kind = "OpenAIProvider" THEN OPENAI_MODEL
                      ELSE CLAUDE_MODEL,
            !.backend = backend,
            !.steps = IF Requests(backend) = 1
                      THEN <<"truncate_text", "external_call">>
                      ELSE <<"truncate_text">>,
            !.calls = Requests(backend),
            !.raised = exc # None /\ ~ExceptException(exc),
            !.status = IF exc = None THEN "answer"
                       ELSE IF ExceptException(exc) THEN "error"
                       ELSE "none",
            !.error = IF exc = None \/ ~ExceptException(exc) THEN <<>>
                      ELSE <<"str(e): ", exc>>]

\* AIProviderFactory.create_provider called with a provider and a secret.
CreateProvider(provider_type, api_key) ==
    /\ adapter' = create_provider(provider_type, api_key)
    /\ asks' = 0
    /\ resp' = [NoResp EXCEPT !.op = "create_provider",
                              !.provider = provider_type,
                              !.status = IF adapter'.kind = None THEN "none"
                                         ELSE "created"]
    /\ UNCHANGED <<credVars, qaVars, concVars, truncVars>>

\* One ask_question call on the adapter.
AdapterAsk(model, backend) ==
    /\ adapter.kind # None
    /\ asks < MaxAsks
    /\ asks' = asks + 1
    /\ resp' = Provider_ask_question(adapter.kind, model, backend)
    /\ UNCHANGED <<adapter, credVars, qaVars, concVars, truncVars>>

NextAdapter ==
    \/ \E provider_type \in ProviderInputs \cup {"OpenAI"}, api_key \in Keys :
            CreateProvider(provider_type, api_key)
    \/ \E model \in AskModelInputs, backend \in BackendOutcomes :
            AdapterAsk(model, backend)

SpecAdapter == Init /\ [][NextAdapter]_vars

\* ------------------------------------------------------------------ claims

SameScope(row, provider, user_id) ==
    row.provider = provider /\ row.user_id = user_id

\* C1: for each (provider, owning user) pair at most one credential is valid,
\* where an absent user is a partition of its own.
C1_AtMostOneValidPerScope ==
    \A i, j \in DOMAIN api_keys :
        (/\ api_keys[i].is_valid
         /\ api_keys[j].is_valid
         /\ SameScope(api_keys[i], api_keys[j].provider, api_keys[j].user_id))
        => i = j

\* C3: an update_api_key call leaves is_valid unchanged on every credential
\* outside its own (provider, user) scope.
C3_OutOfScopeUntouched ==
    [][resp'.op = "update_api_key" =>
        \A i \in DOMAIN api_keys :
            ~SameScope(api_keys[i], resp'.provider, resp'.user_id)
            => api_keys'[i].is_valid = api_keys[i].is_valid]_vars

\* C9: an update_api_key call that does not succeed returns an error and
\* leaves the credential table exactly as it was.
C9_FailedUpdateLeavesTable ==
    [][(resp'.op = "update_api_key" /\ resp'.status # "success") =>
        (resp'.status = "error" /\ api_keys' = api_keys)]_vars

\* C9 witness: a persistence failure hit a call whose scope held a valid
\* credential, which is still valid.
C9_Witness ==
    /\ resp.op = "update_api_key"
    /\ resp.error = <<"persistence failure">>
    /\ \E i \in DOMAIN api_keys :
        /\ api_keys[i].is_valid
        /\ api_keys[i].provider = resp.provider
        /\ api_keys[i].user_id = None
        /\ ~Truthy(resp.user_id)

\* C4: after two successful updates of scope (p, u), the last two rows of the
\* table, a lookup for (p, u) returns the second one, for an absent u and for
\* a non-empty u (the empty user id is the case of C1).  ask_question has no
\* user parameter: its lookup is one with an absent user id.
C4_LookupReturnsLatest ==
    LET n == Len(api_keys)
    IN  (/\ resp.op \in {"get_api_key", "ask_question"}
         /\ resp.user_id # ""
         /\ n >= 2
         /\ SameScope(api_keys[n], resp.provider, resp.user_id)
         /\ SameScope(api_keys[n - 1], resp.provider, resp.user_id))
        => resp.row = n

\* C5: an ask with a provider that is no key of the supported-provider
\* configuration ends in an error and never looks a credential up.
C5_ValidationBeforeLookup ==
    (resp.op = "ask_question" /\ resp.provider \notin DOMAIN SUPPORTED_PROVIDERS)
    => (resp.status = "error" /\ "credential_lookup" \notin Range(resp.steps))

\* C6: an ask that fails validation or resolution ends in an error with no
\* external call, builds no client without a credential, and reports a
\* missing credential as "No valid API key found for provider: p".
C6_FailureMakesNoExternalCall ==
    LET p == resp.provider
        unsupported == p \notin DOMAIN SUPPORTED_PROVIDERS
        badModel == /\ ~unsupported
                    /\ resp.model # None
                    /\ resp.model \notin SUPPORTED_PROVIDERS[p]
        noCredential == AskQuery(api_keys, p) = {}
    IN  resp.op = "ask_question" =>
        /\ (unsupported \/ badModel \/ noCredential) =>
                /\ resp.status = "error"
                /\ "external_call" \notin Range(resp.steps)
        /\ noCredential =>
                /\ "construct_client" \notin Range(resp.steps)
                /\ (~unsupported =>
                     resp.error = <<"No valid API key found for provider: ", p>>)

\* C2: when two update_api_key calls for the same scope were in flight
\* together and both have returned, that scope has at most one valid
\* credential.
C2_ConcurrentUpdatesOneValid ==
    (/\ pc[1] = "done"
     /\ pc[2] = "done"
     /\ overlap
     /\ req[1].provider = req[2].provider
     /\ req[1].user_id = req[2].user_id)
    => Cardinality({i \in DOMAIN api_keys :
            /\ api_keys[i].is_valid
            /\ SameScope(api_keys[i], req[1].provider, req[1].user_id)}) <= 1

\* C10: delete_qa_pair with an id no stored pair has returns the not-found
\* error and changes nothing; with a stored id it removes that pair only, and
\* a second delete of the same id right after a successful one is not-found.
C10_DeleteMissingIsNoOp ==
    [][resp'.op = "delete_qa_pair" =>
        LET id == resp'.qa_id
            stored == {r \in qa_pairs : r.id = id}
        IN  /\ stored = {} =>
                /\ resp'.status = "error"
                /\ resp'.error = <<"QA pair not found">>
                /\ qa_pairs' = qa_pairs
            /\ stored # {} =>
                \/ resp'.status = "success" /\ qa_pairs' = qa_pairs \ stored
                \/ resp'.error = <<"persistence failure">> /\ qa_pairs' = qa_pairs
            /\ (resp.op = "delete_qa_pair" /\ resp.status = "success"
                    /\ resp.qa_id = id) =>
                resp'.error = <<"QA pair not found">>]_vars

\* C10 witness: a delete of an id that was stored and has been deleted is
\* answered not-found while other pairs are still stored.
C10_Witness ==
    /\ resp.op = "delete_qa_pair"
    /\ resp.error = <<"QA pair not found">>
    /\ \E r \in qa_pairs : r.id > resp.qa_id
    /\ resp.qa_id >= 1

\* C7: truncate_text returns the text when it fits; else, when '.', '?' or
\* '!' occurs in the first max_chars characters, a prefix that ends with the
\* rightmost of them and is no longer than max_chars; else the first
\* max_chars characters and "...".
C7_TruncateContract ==
    out.done =>
        LET marks == {i \in 1..Min(max_chars, Len(text)) :
                        text[i] \in {".", "?", "!"}}
            v == out.value
        IN  IF Len(text) <= max_chars THEN v = text
            ELSE IF marks # {}
            THEN /\ Len(v) <= max_chars
                 /\ Len(v) >= 1
                 /\ v[Len(v)] = text[MaxOf(marks)]
            ELSE v = Slice(text, max_chars) \o <<".", ".", ".">>

\* C8: an adapter's ask_question returns {answer} or {error}; every failure
\* of the backend call becomes an {error}, nothing is raised to the caller,
\* and the backend is called at most once.
C8_AdapterNeverRaisesNorRetries ==
    resp.op = "adapter_ask" =>
        /\ resp.status \in {"answer", "error"}
        /\ ~resp.raised
        /\ resp.calls <= 1
        /\ (resp.backend # "ok" => resp.status = "error" /\ resp.error # <<>>)

\* C8 witness: each adapter variant has turned a malformed or empty response
\* of its single backend call into an error.
C8_Witness ==
    /\ resp.op = "adapter_ask"
    /\ resp.provider = "AnthropicProvider"
    /\ resp.backend \in {"malformed", "empty"}
    /\ resp.calls = 1
    /\ resp.status = "error"
    /\ asks = MaxAsks

====
